---- MODULE Spec2Model ----
(***************************************************************************)
(* Account constraint validation and instruction dispatch of qanchor-lang. *)
(*                                                                         *)
(* The model follows the code the two macros emit:                         *)
(*   #[derive(Accounts)]  -> try_accounts   (accounts_macro.rs)            *)
(*   #[program]           -> execute        (program_macro.rs)             *)
(* and the runtime types they call (accounts.rs, context.rs, program.rs,   *)
(* error.rs).  32-byte keys are small naturals, a data buffer is a         *)
(* sequence of bytes, the payload type T of Account<'info, T> is u64 and   *)
(* its codec is the JSON text of the number, as serde_json produces it.    *)
(***************************************************************************)
EXTENDS Integers, Sequences, FiniteSets, TLC

\* ------------------------------------------------------------------ bounds
MaxAccounts == 2
MaxSlots    == 2
MaxAttrs    == 2
MaxDataLen  == 2
MaxTries    == 3

\* ------------------------------------------------------------ error codes
AccountDidNotDeserialize == 1000
AccountDidNotSerialize   == 1001
AccountNotMutable        == 1002
AccountNotSigner         == 1003
AccountReallocExceeded   == 1004
InvalidProgramId         == 1005
AccountNotFound          == 1006
AccountAlreadyExists     == 1007
InsufficientBalance      == 1008
AccountSizeMismatch      == 1009
InvalidAccountOwner      == 1010
ConstraintViolation      == 2000
ConstraintInit           == 2001
ConstraintMut            == 2002
ConstraintSigner         == 2003
ConstraintOwner          == 2004
ConstraintCustom         == 2005
ConstraintSpace          == 2006
ProgramNotFound          == 3000
InvalidInstructionData   == 3001
InstructionNotFound      == 3002
ProgramExecutionFailed   == 3003
ProgramUpgradeFailed     == 3004
ProgramNotUpgradeable    == 3005
InvalidSignature         == 4000
InvalidTransaction       == 4001
InvalidAccountData       == 4002
InsufficientAccounts     == 4003
TooManyAccounts          == 4004
ArithmeticOverflow       == 5000
DivisionByZero           == 5001
InvalidCalculation       == 5002
SystemError              == 6000
MemoryAllocationFailed   == 6001
ResourceLimitExceeded    == 6002
Timeout                  == 6003
Custom                   == 10000

\* The enum's members in declaration order, each under the group comment
\* it is declared under, with its discriminant.
ErrorCodes ==
    { [name |-> "AccountDidNotDeserialize", group |-> "account", discriminant |-> AccountDidNotDeserialize],
      [name |-> "AccountDidNotSerialize", group |-> "account", discriminant |-> AccountDidNotSerialize],
      [name |-> "AccountNotMutable", group |-> "account", discriminant |-> AccountNotMutable],
      [name |-> "AccountNotSigner", group |-> "account", discriminant |-> AccountNotSigner],
      [name |-> "AccountReallocExceeded", group |-> "account", discriminant |-> AccountReallocExceeded],
      [name |-> "InvalidProgramId", group |-> "account", discriminant |-> InvalidProgramId],
      [name |-> "AccountNotFound", group |-> "account", discriminant |-> AccountNotFound],
      [name |-> "AccountAlreadyExists", group |-> "account", discriminant |-> AccountAlreadyExists],
      [name |-> "InsufficientBalance", group |-> "account", discriminant |-> InsufficientBalance],
      [name |-> "AccountSizeMismatch", group |-> "account", discriminant |-> AccountSizeMismatch],
      [name |-> "InvalidAccountOwner", group |-> "account", discriminant |-> InvalidAccountOwner],
      [name |-> "ConstraintViolation", group |-> "constraint", discriminant |-> ConstraintViolation],
      [name |-> "ConstraintInit", group |-> "constraint", discriminant |-> ConstraintInit],
      [name |-> "ConstraintMut", group |-> "constraint", discriminant |-> ConstraintMut],
      [name |-> "ConstraintSigner", group |-> "constraint", discriminant |-> ConstraintSigner],
      [name |-> "ConstraintOwner", group |-> "constraint", discriminant |-> ConstraintOwner],
      [name |-> "ConstraintCustom", group |-> "constraint", discriminant |-> ConstraintCustom],
      [name |-> "ConstraintSpace", group |-> "constraint", discriminant |-> ConstraintSpace],
      [name |-> "ProgramNotFound", group |-> "program", discriminant |-> ProgramNotFound],
      [name |-> "InvalidInstructionData", group |-> "program", discriminant |-> InvalidInstructionData],
      [name |-> "InstructionNotFound", group |-> "program", discriminant |-> InstructionNotFound],
      [name |-> "ProgramExecutionFailed", group |-> "program", discriminant |-> ProgramExecutionFailed],
      [name |-> "ProgramUpgradeFailed", group |-> "program", discriminant |-> ProgramUpgradeFailed],
      [name |-> "ProgramNotUpgradeable", group |-> "program", discriminant |-> ProgramNotUpgradeable],
      [name |-> "InvalidSignature", group |-> "validation", discriminant |-> InvalidSignature],
      [name |-> "InvalidTransaction", group |-> "validation", discriminant |-> InvalidTransaction],
      [name |-> "InvalidAccountData", group |-> "validation", discriminant |-> InvalidAccountData],
      [name |-> "InsufficientAccounts", group |-> "validation", discriminant |-> InsufficientAccounts],
      [name |-> "TooManyAccounts", group |-> "validation", discriminant |-> TooManyAccounts],
      [name |-> "ArithmeticOverflow", group |-> "math", discriminant |-> ArithmeticOverflow],
      [name |-> "DivisionByZero", group |-> "math", discriminant |-> DivisionByZero],
      [name |-> "InvalidCalculation", group |-> "math", discriminant |-> InvalidCalculation],
      [name |-> "SystemError", group |-> "system", discriminant |-> SystemError],
      [name |-> "MemoryAllocationFailed", group |-> "system", discriminant |-> MemoryAllocationFailed],
      [name |-> "ResourceLimitExceeded", group |-> "system", discriminant |-> ResourceLimitExceeded],
      [name |-> "Timeout", group |-> "system", discriminant |-> Timeout],
      [name |-> "Custom", group |-> "custom", discriminant |-> Custom] }

\* The range each group comment documents.
InGroupRange(group, n) ==
    CASE group = "account"    -> n \in 1000..1999
      [] group = "constraint" -> n \in 2000..2999
      [] group = "program"    -> n \in 3000..3999
      [] group = "validation" -> n \in 4000..4999
      [] group = "math"       -> n \in 5000..5999
      [] group = "system"     -> n \in 6000..6999
      [] group = "custom"     -> n >= 10000
      [] OTHER                -> FALSE

\* code() returning the first number of the member's thousand.
codeGroupBase(e) == (e.discriminant \div 1000) * 1000

\* ErrorCode::code: *self as u32; every discriminant is below 2^32, the cast
\* keeps its value.
code(e) == e.discriminant

Member(name) == CHOOSE e \in ErrorCodes : e.name = name

\* Result<_, ErrorCode>: None while the call has not returned.
None      == [tag |-> "None", code |-> 0]
Ok        == [tag |-> "Ok",   code |-> 0]
Err(e)    == [tag |-> "Err",  code |-> e]

\* --------------------------------------------------------------- addresses
\* System::program_id() is [0u8; 32].
SystemProgramId == 0
OtherKey        == SystemProgramId + 1
Keys            == {SystemProgramId, OtherKey}

\* ------------------------------------------------------------------- bytes
IsWhitespace(b) == b \in {9, 10, 13, 32}
IsDigit(b)      == b \in 48..57

\* serde_json::from_slice::<u64>: optional whitespace, a JSON number without
\* sign, fraction or exponent and without a leading zero, then whitespace
\* only up to the end of the slice.  Returns -1 when the slice does not parse.
RECURSIVE SkipWhitespace(_)
SkipWhitespace(s) ==
    IF s # <<>> /\ IsWhitespace(Head(s)) THEN SkipWhitespace(Tail(s)) ELSE s

RECURSIVE DigitRun(_)
DigitRun(s) ==
    IF s # <<>> /\ IsDigit(Head(s)) THEN 1 + DigitRun(Tail(s)) ELSE 0

RECURSIVE DecimalValue(_, _)
DecimalValue(s, acc) ==
    IF s = <<>> THEN acc ELSE DecimalValue(Tail(s), acc * 10 + (Head(s) - 48))

from_slice(data) ==
    LET s == SkipWhitespace(data)
        n == DigitRun(s)
        digits == SubSeq(s, 1, n)
        rest   == SubSeq(s, n + 1, Len(s))
    IN  IF n = 0 THEN -1
        ELSE IF n > 1 /\ Head(digits) = 48 THEN -1
        ELSE IF SkipWhitespace(rest) # <<>> THEN -1
        ELSE DecimalValue(digits, 0)

\* AccountInfo::try_deserialize
try_deserialize(info) ==
    IF from_slice(info.data) = -1
    THEN [res |-> Err(AccountDidNotDeserialize), value |-> 0]
    ELSE [res |-> Ok, value |-> from_slice(info.data)]

\* serde_json::to_vec::<u64>: the decimal digits of the value, most
\* significant first; it has no failure for this payload type.
RECURSIVE to_vec(_)
to_vec(v) ==
    IF v < 10 THEN <<48 + v>> ELSE Append(to_vec(v \div 10), 48 + (v % 10))

\* copy_from_slice into data[..serialized.len()]: the prefix is overwritten,
\* the bytes after it stay.
CopyPrefix(data, serialized) ==
    [i \in 1..Len(data) |-> IF i <= Len(serialized) THEN serialized[i] ELSE data[i]]

\* try_serialize without the is_writable test.
try_serializeUnchecked(info, v) ==
    IF Len(to_vec(v)) > Len(info.data)
    THEN [res |-> Err(AccountReallocExceeded), info |-> info]
    ELSE [res |-> Ok, info |-> [info EXCEPT !.data = CopyPrefix(info.data, to_vec(v))]]

\* try_serialize refusing a serialized form that fills the buffer exactly.
try_serializeGe(info, v) ==
    IF ~info.is_writable
    THEN [res |-> Err(AccountNotMutable), info |-> info]
    ELSE IF Len(to_vec(v)) >= Len(info.data)
    THEN [res |-> Err(AccountReallocExceeded), info |-> info]
    ELSE [res |-> Ok, info |-> [info EXCEPT !.data = CopyPrefix(info.data, to_vec(v))]]

\* try_serialize that zero-fills the buffer behind the serialized form.
try_serializeClearsTail(info, v) ==
    IF ~info.is_writable
    THEN [res |-> Err(AccountNotMutable), info |-> info]
    ELSE IF Len(to_vec(v)) > Len(info.data)
    THEN [res |-> Err(AccountReallocExceeded), info |-> info]
    ELSE [res |-> Ok,
          info |-> [info EXCEPT !.data =
                      CopyPrefix([i \in 1..Len(info.data) |-> 0], to_vec(v))]]

\* AccountInfo::try_serialize: the result and the record after the call.
try_serialize(info, v) ==
    IF ~info.is_writable
    THEN [res |-> Err(AccountNotMutable), info |-> info]
    ELSE IF Len(to_vec(v)) > Len(info.data)
    THEN [res |-> Err(AccountReallocExceeded), info |-> info]
    ELSE [res |-> Ok, info |-> [info EXCEPT !.data = CopyPrefix(info.data, to_vec(v))]]

\* ------------------------------------------------------------- constraints
\* One comma-separated part of an #[account(...)] attribute.  The argument
\* of owner = <ident> is the address the identifier resolves to; the argument
\* of space = <text> is the number the text parses to as usize, or -1 for a
\* text that does not parse (an expression such as 8 + 32).
Attr(name, arg) == [name |-> name, arg |-> arg]

\* ParsePart with a custom predicate wired in: constraint = <expr> becomes a
\* check of the record's owner against the expression's value.
ParsePartCustomWired(part) ==
    IF part.name \in {"init", "mut", "signer"} THEN <<[kind |-> part.name, arg |-> 0]>>
    ELSE IF part.name \in {"payer", "owner"} THEN <<[kind |-> part.name, arg |-> part.arg]>>
    ELSE IF part.name = "space" /\ part.arg >= 0 THEN <<[kind |-> "space", arg |-> part.arg]>>
    ELSE IF part.name = "constraint" THEN <<[kind |-> "owner", arg |-> part.arg]>>
    ELSE <<>>

\* parse_constraint_string: one AccountConstraint per recognised part, in the
\* order written; a space part whose text is no number and every
\* unrecognised part are dropped.
ParsePart(part) ==
    IF part.name \in {"init", "mut", "signer"} THEN <<[kind |-> part.name, arg |-> 0]>>
    ELSE IF part.name \in {"payer", "owner"} THEN <<[kind |-> part.name, arg |-> part.arg]>>
    ELSE IF part.name = "space" /\ part.arg >= 0 THEN <<[kind |-> "space", arg |-> part.arg]>>
    ELSE <<>>

RECURSIVE parse_constraint_string(_)
parse_constraint_string(attrs) ==
    IF attrs = <<>> THEN <<>>
    ELSE ParsePart(Head(attrs)) \o parse_constraint_string(Tail(attrs))

\* ConstraintCheck with the negation of the Mut test left out.
ConstraintCheckMutInverted(info, c) ==
    CASE c.kind = "mut"    -> IF info.is_writable THEN ConstraintMut ELSE 0
      [] c.kind = "signer" -> IF ~info.is_signer THEN ConstraintSigner ELSE 0
      [] c.kind = "init"   -> IF Len(info.data) > 0 THEN AccountAlreadyExists ELSE 0
      [] c.kind = "owner"  -> IF info.owner # c.arg THEN ConstraintOwner ELSE 0
      [] c.kind = "space"  -> IF Len(info.data) < c.arg THEN ConstraintSpace ELSE 0
      [] OTHER             -> 0

\* ConstraintCheck with the Space test written <= instead of <.
ConstraintCheckSpaceLe(info, c) ==
    CASE c.kind = "mut"    -> IF ~info.is_writable THEN ConstraintMut ELSE 0
      [] c.kind = "signer" -> IF ~info.is_signer THEN ConstraintSigner ELSE 0
      [] c.kind = "init"   -> IF Len(info.data) > 0 THEN AccountAlreadyExists ELSE 0
      [] c.kind = "owner"  -> IF info.owner # c.arg THEN ConstraintOwner ELSE 0
      [] c.kind = "space"  -> IF Len(info.data) <= c.arg THEN ConstraintSpace ELSE 0
      [] OTHER             -> 0

\* ConstraintCheck with the Init test returning the init-constraint code.
ConstraintCheckInitCode(info, c) ==
    CASE c.kind = "mut"    -> IF ~info.is_writable THEN ConstraintMut ELSE 0
      [] c.kind = "signer" -> IF ~info.is_signer THEN ConstraintSigner ELSE 0
      [] c.kind = "init"   -> IF Len(info.data) > 0 THEN ConstraintInit ELSE 0
      [] c.kind = "owner"  -> IF info.owner # c.arg THEN ConstraintOwner ELSE 0
      [] c.kind = "space"  -> IF Len(info.data) < c.arg THEN ConstraintSpace ELSE 0
      [] OTHER             -> 0

\* ConstraintCheck with the Owner test reading the record's key.
ConstraintCheckOwnerKey(info, c) ==
    CASE c.kind = "mut"    -> IF ~info.is_writable THEN ConstraintMut ELSE 0
      [] c.kind = "signer" -> IF ~info.is_signer THEN ConstraintSigner ELSE 0
      [] c.kind = "init"   -> IF Len(info.data) > 0 THEN AccountAlreadyExists ELSE 0
      [] c.kind = "owner"  -> IF info.key # c.arg THEN ConstraintOwner ELSE 0
      [] c.kind = "space"  -> IF Len(info.data) < c.arg THEN ConstraintSpace ELSE 0
      [] OTHER             -> 0

\* The check generate_field_validation emits for one constraint:
\* 0 when the record passes, the error code otherwise.
ConstraintCheck(info, c) ==
    CASE c.kind = "mut"    -> IF ~info.is_writable THEN ConstraintMut ELSE 0
      [] c.kind = "signer" -> IF ~info.is_signer THEN ConstraintSigner ELSE 0
      [] c.kind = "init"   -> IF Len(info.data) > 0 THEN AccountAlreadyExists ELSE 0
      [] c.kind = "owner"  -> IF info.owner # c.arg THEN ConstraintOwner ELSE 0
      [] c.kind = "space"  -> IF Len(info.data) < c.arg THEN ConstraintSpace ELSE 0
      [] OTHER             -> 0

\* The checks of one slot, in the order of the constraint list; the first
\* failing check returns.  evaluated = number of checks that were run.
RECURSIVE ChecksFrom(_, _, _)
ChecksFrom(info, cs, i) ==
    IF i > Len(cs) THEN [code |-> 0, evaluated |-> Len(cs)]
    ELSE IF ConstraintCheck(info, cs[i]) # 0
         THEN [code |-> ConstraintCheck(info, cs[i]), evaluated |-> i]
         ELSE ChecksFrom(info, cs, i + 1)

\* generate_field_validation without the early return: every check runs and
\* the error of the last failing one is returned.
ValidationLastFailure(info, cs) ==
    LET V == {j \in 1..Len(cs) : ConstraintCheck(info, cs[j]) # 0}
    IN  IF V = {} THEN [code |-> 0, evaluated |-> Len(cs)]
        ELSE [code |-> ConstraintCheck(info, cs[CHOOSE j \in V : \A h \in V : h <= j]),
              evaluated |-> Len(cs)]

generate_field_validation(info, cs) == ChecksFrom(info, cs, 1)


\* ---------------------------------------------------------------- wrappers
\* A typed wrapper holds a reference to its record (an index into accounts)
\* and, for Account<'info, T>, the deserialized payload.
Wrapper(kind, idx, data) == [kind |-> kind, account_info |-> idx, data |-> data]

\* Account::try_from
AccountTryFrom(idx, info) ==
    IF try_deserialize(info).res.tag = "Err"
    THEN [res |-> try_deserialize(info).res, value |-> Wrapper("Account", idx, 0)]
    ELSE [res |-> Ok, value |-> Wrapper("Account", idx, try_deserialize(info).value)]

\* Signer::try_from without the is_signer test.
SignerTryFromUnchecked(idx, info) ==
    [res |-> Ok, value |-> Wrapper("Signer", idx, 0)]

\* Signer::try_from
SignerTryFrom(idx, info) ==
    IF ~info.is_signer
    THEN [res |-> Err(AccountNotSigner), value |-> Wrapper("Signer", idx, 0)]
    ELSE [res |-> Ok, value |-> Wrapper("Signer", idx, 0)]

\* Program::try_from comparing the record's owner instead of its key.
ProgramTryFromOwner(idx, info) ==
    IF info.owner # SystemProgramId
    THEN [res |-> Err(InvalidProgramId), value |-> Wrapper("Program", idx, 0)]
    ELSE [res |-> Ok, value |-> Wrapper("Program", idx, 0)]

\* Program::<System>::try_from
ProgramTryFrom(idx, info) ==
    IF info.key # SystemProgramId
    THEN [res |-> Err(InvalidProgramId), value |-> Wrapper("Program", idx, 0)]
    ELSE [res |-> Ok, value |-> Wrapper("Program", idx, 0)]

\* reload that returns the deserialization result without storing the value.
reloadKeepsPayload(w, info) ==
    [res |-> try_deserialize(info).res, value |-> w]

\* Account::reload: self.data is assigned only when try_deserialize
\* succeeds; `?` returns the error before the assignment.
reload(w, info) ==
    IF try_deserialize(info).res.tag = "Err"
    THEN [res |-> try_deserialize(info).res, value |-> w]
    ELSE [res |-> Ok, value |-> [w EXCEPT !.data = try_deserialize(info).value]]

\* generate_field_assignment: the constructor is chosen by the field's type;
\* any other type receives the record itself.
generate_field_assignment(kind, idx, info) ==
    CASE kind = "Account" -> AccountTryFrom(idx, info)
      [] kind = "Signer"  -> SignerTryFrom(idx, info)
      [] kind = "Program" -> ProgramTryFrom(idx, info)
      [] OTHER            -> [res |-> Ok, value |-> Wrapper("AccountInfo", idx, 0)]

\* ------------------------------------------------------------- instruction
\* ProgramInstruction has one variant per handler; the wire form of variant
\* v is the one-element payload <<v>>.
Variants == {1}

\* extract falling back to the first variant when the payload does not decode.
extractDefault(data) ==
    IF Len(data) = 1 /\ data[1] \in Variants
    THEN [res |-> Ok, value |-> data[1]]
    ELSE [res |-> Ok, value |-> 1]

\* InstructionParams::extract
extract(data) ==
    IF Len(data) = 1 /\ data[1] \in Variants
    THEN [res |-> Ok, value |-> data[1]]
    ELSE [res |-> Err(InvalidInstructionData), value |-> 0]

InstructionData == {<<>>, <<1>>, <<2>>}

\* InstructionDispatcher::parse_accounts: every account is handed to
\* validation, the remaining accounts are the empty slice.
parse_accounts(accs) == [accounts_data |-> accs, remaining_accounts |-> <<>>]

\* ------------------------------------------------------------------- state
VARIABLES
    schema,            \* the slots of the handler's Accounts struct, in field order
    accounts,          \* the account records passed to execute
    pc,                \* Decoding, Binding, Executing, Completed, Failed
    instruction,       \* the decoded ProgramInstruction, 0 before decoding
    cursor,            \* number of records account_iter has yielded
    bound,             \* bound[i]: the record pulled for slot i (index into accounts)
    evaluated,         \* number of constraint checks run for the last pulled slot
    wrappers,          \* fields of Self { ... } constructed so far
    try_accounts_ret,  \* return value of try_accounts
    ctx,               \* the Context handed to the handler
    handler_calls,     \* number of handler invocations
    result,            \* return value of execute
    instruction_data,  \* the bytes execute was called with, <<>> before the call
    handler_ret,       \* return value of the handler, None before it returns
    call,              \* the last call on a record or a wrapper made from the host
    handler_err,       \* declared code of the downstream error the handler raised, 0 if none
    retry              \* with_retry: its config, locals, the attempts made and its return value

vars == <<schema, accounts, pc, instruction, cursor, bound, evaluated,
          wrappers, try_accounts_ret, ctx, handler_calls, result,
          instruction_data, handler_ret, call, handler_err, retry>>

NoContext == [built |-> FALSE, accounts |-> <<>>, remaining_accounts |-> <<>>]

NoCall == [op |-> "none", res |-> None, arg |-> 0]

\* with_retry has not been called.
NoRetry == [config |-> <<>>, attempt |-> 0, delay |-> 0, outcomes |-> <<>>,
            slept |-> <<>>, ret |-> None]

\* Return value of try_accounts: the result and, on Ok, the struct's fields.
Ret(res, fields) == [res |-> res, value |-> fields]

\* try_accounts as a function of the struct's fields and the account list:
\* the validations of all fields in field order, each on the next record of
\* the list, then the constructors of all fields in field order.
RECURSIVE ValidateFields(_, _, _)
ValidateFields(fields, accs, k) ==
    IF k > Len(fields) THEN 0
    ELSE IF k > Len(accs) THEN InsufficientAccounts
    ELSE LET v == generate_field_validation(
                      accs[k], parse_constraint_string(fields[k].attrs))
         IN  IF v.code # 0 THEN v.code ELSE ValidateFields(fields, accs, k + 1)

RECURSIVE AssignFields(_, _, _)
AssignFields(fields, accs, k) ==
    IF k > Len(fields) THEN [res |-> Ok, value |-> <<>>]
    ELSE LET a == generate_field_assignment(fields[k].kind, k, accs[k])
             r == AssignFields(fields, accs, k + 1)
         IN  IF a.res.tag = "Err" THEN [res |-> a.res, value |-> <<>>]
             ELSE IF r.res.tag = "Err" THEN r
             ELSE [res |-> Ok, value |-> <<a.value>> \o r.value]

try_accounts(fields, accs) ==
    IF ValidateFields(fields, accs, 1) # 0
    THEN Ret(Err(ValidateFields(fields, accs, 1)), <<>>)
    ELSE Ret(AssignFields(fields, accs, 1).res, AssignFields(fields, accs, 1).value)

\* ------------------------------------------------------------------ inputs
AccountInfo(key, is_signer, is_writable, data, balance, owner) ==
    [key |-> key, is_signer |-> is_signer, is_writable |-> is_writable,
     data |-> data, balance |-> balance, owner |-> owner]

Slot(kind, attrs) == [kind |-> kind, attrs |-> attrs]

SeqsUpTo(S, n) == UNION {[1..k -> S] : k \in 0..n}

\* Records and slots of the multi-slot executions.
DispatchRecords ==
    { AccountInfo(OtherKey, FALSE, TRUE, <<>>, 0, SystemProgramId),
      AccountInfo(OtherKey, TRUE, FALSE, <<>>, 0, SystemProgramId),
      AccountInfo(SystemProgramId, FALSE, FALSE, <<>>, 0, SystemProgramId),
      AccountInfo(OtherKey, FALSE, TRUE, <<49>>, 0, OtherKey),
      AccountInfo(OtherKey, TRUE, FALSE, <<49>>, 0, OtherKey),
      AccountInfo(OtherKey, FALSE, TRUE, <<0>>, 0, OtherKey) }

DispatchSlots ==
    { Slot("Account", <<Attr("init", 0)>>),
      Slot("Account", <<Attr("mut", 0)>>),
      Slot("Account", <<>>),
      Slot("Signer", <<>>),
      Slot("Signer", <<Attr("mut", 0)>>),
      Slot("Program", <<>>),
      Slot("AccountInfo", <<>>) }

\* The Accounts structs of the repository's tests and examples, and the
\* counter-init struct with a literal space.
CounterInitSchema ==
    << Slot("Account", <<Attr("init", 0), Attr("space", 48)>>),
       Slot("Signer", <<>>),
       Slot("Program", <<>>) >>

ProgramSchemas ==
    { << Slot("Account", <<Attr("init", 0), Attr("payer", 0), Attr("space", -1)>>),
         Slot("Signer", <<Attr("mut", 0)>>),
         Slot("Program", <<>>) >>,
      CounterInitSchema,
      << Slot("Account", <<Attr("mut", 0)>>), Slot("Signer", <<>>) >>,
      << Slot("Account", <<Attr("mut", 0)>>) >>,
      << Slot("Signer", <<>>) >> }

\* Records and slots of the single-slot executions: every combination.
\* The bytes of the buffers: NUL and the digit 1.
DataBytes == {0, 49}
Buffers   == SeqsUpTo(DataBytes, MaxDataLen)

AllRecords ==
    { AccountInfo(k, s, w, d, 0, o) :
        k \in Keys, s \in BOOLEAN, w \in BOOLEAN, d \in Buffers, o \in Keys }

AttrPool ==
    { Attr("init", 0), Attr("mut", 0), Attr("signer", 0), Attr("space", 1),
      Attr("owner", SystemProgramId), Attr("constraint", 0) }

AllSlots ==
    { Slot(k, a) : k \in {"Account", "Signer", "Program", "AccountInfo"},
                   a \in SeqsUpTo(AttrPool, MaxAttrs) }

Start ==
    /\ pc = "Decoding"
    /\ instruction = 0
    /\ cursor = 0
    /\ bound = <<>>
    /\ evaluated = 0
    /\ wrappers = <<>>
    /\ try_accounts_ret = Ret(None, <<>>)
    /\ ctx = NoContext
    /\ handler_calls = 0
    /\ result = None
    /\ instruction_data = <<>>
    /\ handler_ret = None
    /\ call = NoCall
    /\ handler_err = 0
    /\ retry = NoRetry

Init ==
    /\ schema \in SeqsUpTo(DispatchSlots, MaxSlots)
    /\ accounts \in SeqsUpTo(DispatchRecords, MaxAccounts)
    /\ Start

InitSlot ==
    /\ schema \in [1..1 -> AllSlots]
    /\ accounts \in SeqsUpTo(AllRecords, 1)
    /\ Start

InitPrograms ==
    /\ schema \in ProgramSchemas
    /\ accounts \in SeqsUpTo(DispatchRecords, Len(schema) + 1)
    /\ Start

\* ----------------------------------------------------------------- actions
\* next() replaced by next_back(): records are taken from the end of the list.
nextBack(cur) ==
    IF cur < Len(accounts)
    THEN [some |-> TRUE, idx |-> Len(accounts) - cur, cursor |-> cur + 1]
    ELSE [some |-> FALSE, idx |-> 0, cursor |-> cur]

\* next() on a cycled iterator: an exhausted list starts again at its head.
nextCycle(cur) ==
    IF Len(accounts) > 0
    THEN [some |-> TRUE, idx |-> (cur % Len(accounts)) + 1, cursor |-> cur + 1]
    ELSE [some |-> FALSE, idx |-> 0, cursor |-> cur]

\* account_iter.next(): the record at the cursor, and the cursor moved by one.
next(cur) ==
    IF cur < Len(accounts)
    THEN [some |-> TRUE, idx |-> cur + 1, cursor |-> cur + 1]
    ELSE [some |-> FALSE, idx |-> 0, cursor |-> cur]

\* BindFails that reports either the error raised or ConstraintViolation.
BindFailsEitherCode(e) ==
    /\ \E c \in {e, ConstraintViolation} :
         /\ try_accounts_ret' = Ret(Err(c), <<>>)
         /\ result' = Err(c)
    /\ wrappers' = <<>>
    /\ pc' = "Failed"

\* An error leaves try_accounts through `?`, and execute through the `?`
\* on its call: the fields constructed so far are dropped.
BindFails(e) ==
    /\ try_accounts_ret' = Ret(Err(e), <<>>)
    /\ wrappers' = <<>>
    /\ result' = Err(e)
    /\ pc' = "Failed"

\* execute: deserialize the instruction, then match on it.
Decode ==
    /\ pc = "Decoding"
    /\ \E data \in InstructionData :
         /\ instruction_data' = data
         /\ IF extract(data).res.tag = "Ok"
            THEN /\ instruction' = extract(data).value
                 /\ pc' = "Binding"
                 /\ result' = result
            ELSE /\ instruction' = instruction
                 /\ pc' = "Failed"
                 /\ result' = extract(data).res
    /\ UNCHANGED <<schema, accounts, cursor, bound, evaluated, wrappers,
                   try_accounts_ret, ctx, handler_calls, handler_ret, call,
                   handler_err, retry>>

\* ValidateSlot with an init check that also zero-fills the record's buffer.
ValidateSlotInitAllocates ==
    /\ pc = "Binding"
    /\ Len(bound) < Len(schema)
    /\ LET slot == schema[Len(bound) + 1]
           n    == next(cursor)
       IN  IF ~n.some
           THEN /\ BindFails(InsufficientAccounts)
                /\ UNCHANGED <<cursor, bound, evaluated, accounts>>
           ELSE LET cs == parse_constraint_string(slot.attrs)
                    v  == generate_field_validation(accounts[n.idx], cs)
                IN  /\ cursor' = n.cursor
                    /\ bound' = Append(bound, n.idx)
                    /\ evaluated' = v.evaluated
                    /\ accounts' = IF \E j \in 1..Len(cs) : cs[j].kind = "init"
                                   THEN [accounts EXCEPT ![n.idx].data = <<0>>]
                                   ELSE accounts
                    /\ IF v.code # 0
                       THEN BindFails(v.code)
                       ELSE UNCHANGED <<try_accounts_ret, wrappers, result, pc>>
    /\ UNCHANGED <<schema, instruction, ctx, handler_calls,
                   instruction_data, handler_ret, call,
                   handler_err, retry>>

\* try_accounts, the statements of one field: pull its record, then run its
\* constraint checks.
ValidateSlot ==
    /\ pc = "Binding"
    /\ Len(bound) < Len(schema)
    /\ LET slot == schema[Len(bound) + 1]
           n    == next(cursor)
       IN  IF ~n.some
           THEN /\ BindFails(InsufficientAccounts)
                /\ UNCHANGED <<cursor, bound, evaluated>>
           ELSE LET v == generate_field_validation(
                             accounts[n.idx], parse_constraint_string(slot.attrs))
                IN  /\ cursor' = n.cursor
                    /\ bound' = Append(bound, n.idx)
                    /\ evaluated' = v.evaluated
                    /\ IF v.code # 0
                       THEN BindFails(v.code)
                       ELSE UNCHANGED <<try_accounts_ret, wrappers, result, pc>>
    /\ UNCHANGED <<schema, accounts, instruction, ctx, handler_calls,
                   instruction_data, handler_ret, call,
                   handler_err, retry>>

\* AssignSlot without the `?`: a constructor's error is ignored and the
\* wrapper is kept.
AssignSlotIgnoresError ==
    /\ pc = "Binding"
    /\ Len(bound) = Len(schema)
    /\ Len(wrappers) < Len(schema)
    /\ LET i == Len(wrappers) + 1
           a == generate_field_assignment(schema[i].kind, bound[i], accounts[bound[i]])
       IN  /\ wrappers' = Append(wrappers, a.value)
           /\ UNCHANGED <<try_accounts_ret, result, pc>>
    /\ UNCHANGED <<schema, accounts, instruction, cursor, bound, evaluated,
                   ctx, handler_calls, instruction_data, handler_ret, call,
                   handler_err, retry>>

\* try_accounts, one field of Ok(Self { ... }): construct its wrapper from
\* the record pulled for it.
AssignSlot ==
    /\ pc = "Binding"
    /\ Len(bound) = Len(schema)
    /\ Len(wrappers) < Len(schema)
    /\ LET i == Len(wrappers) + 1
           a == generate_field_assignment(schema[i].kind, bound[i], accounts[bound[i]])
       IN  IF a.res.tag = "Err"
           THEN BindFails(a.res.code)
           ELSE /\ wrappers' = Append(wrappers, a.value)
                /\ UNCHANGED <<try_accounts_ret, result, pc>>
    /\ UNCHANGED <<schema, accounts, instruction, cursor, bound, evaluated,
                   ctx, handler_calls, instruction_data, handler_ret, call,
                   handler_err, retry>>

\* Invoke with a dispatcher that rejects an account list longer than the
\* struct.
InvokeRejectsExtra ==
    /\ pc = "Binding"
    /\ Len(bound) = Len(schema)
    /\ Len(wrappers) = Len(schema)
    /\ try_accounts_ret' = Ret(Ok, wrappers)
    /\ IF cursor < Len(accounts)
       THEN /\ result' = Err(TooManyAccounts)
            /\ pc' = "Failed"
            /\ UNCHANGED <<ctx, handler_calls>>
       ELSE /\ ctx' = [built |-> TRUE, accounts |-> wrappers,
                       remaining_accounts |-> parse_accounts(accounts).remaining_accounts]
            /\ handler_calls' = handler_calls + 1
            /\ pc' = "Executing"
            /\ result' = result
    /\ UNCHANGED <<schema, accounts, instruction, cursor, bound, evaluated,
                   wrappers, instruction_data, handler_ret, call,
                   handler_err, retry>>

\* execute: try_accounts has returned Ok; build the Context and call the
\* handler.
Invoke ==
    /\ pc = "Binding"
    /\ Len(bound) = Len(schema)
    /\ Len(wrappers) = Len(schema)
    /\ try_accounts_ret' = Ret(Ok, wrappers)
    /\ ctx' = [built |-> TRUE, accounts |-> wrappers,
               remaining_accounts |-> parse_accounts(accounts).remaining_accounts]
    /\ handler_calls' = handler_calls + 1
    /\ pc' = "Executing"
    /\ UNCHANGED <<schema, accounts, instruction, cursor, bound, evaluated,
                   wrappers, result, instruction_data, handler_ret, call,
                   handler_err, retry>>

\* The downstream error enum of the counter example, declared with
\* qanchor_error!.
CounterError ==
    { [name |-> "Overflow",     discriminant |-> 10001],
      [name |-> "Underflow",    discriminant |-> 10002],
      [name |-> "Unauthorized", discriminant |-> 10003] }

\* A conversion that keeps the variant's declared code.
fromKeepsCode(custom) ==
    [name |-> custom.name, group |-> "custom", discriminant |-> custom.discriminant]

\* impl From<$name> for ErrorCode: every variant becomes ErrorCode::Custom.
from(custom) == Member("Custom")

\* What a handler returns: Ok, a framework error raised with qanchor_assert!
\* (raised = 0), or a downstream error converted into ErrorCode by `?` or
\* .into() (raised = the variant's declared code).
HandlerOutcomes ==
    { [ret |-> Ok, raised |-> 0], [ret |-> Err(ArithmeticOverflow), raised |-> 0] }
    \cup { [ret |-> Err(code(from(d))), raised |-> d.discriminant] : d \in CounterError }

\* The values a handler returns.
HandlerResults == {o.ret : o \in HandlerOutcomes}

\* HandlerReturn with a dispatcher that reports every handler failure as
\* ProgramExecutionFailed.
HandlerReturnWraps ==
    /\ pc = "Executing"
    /\ \E o \in HandlerOutcomes :
         /\ handler_err' = o.raised
         /\ handler_ret' = o.ret
         /\ result' = IF o.ret.tag = "Ok" THEN o.ret ELSE Err(ProgramExecutionFailed)
         /\ pc' = IF o.ret.tag = "Ok" THEN "Completed" ELSE "Failed"
    /\ UNCHANGED <<schema, accounts, instruction, cursor, bound, evaluated,
                   wrappers, try_accounts_ret, ctx, handler_calls,
                   instruction_data, call, retry>>

\* HandlerReturn with a dispatcher that binds again after a handler failure.
HandlerReturnRetries ==
    /\ pc = "Executing"
    /\ \E o \in HandlerOutcomes :
         /\ handler_err' = o.raised
         /\ handler_ret' = o.ret
         /\ IF o.ret.tag = "Ok"
            THEN /\ result' = o.ret
                 /\ pc' = "Completed"
                 /\ UNCHANGED <<cursor, bound, wrappers, handler_calls>>
            ELSE /\ result' = result
                 /\ pc' = "Binding"
                 /\ cursor' = 0
                 /\ bound' = <<>>
                 /\ wrappers' = <<>>
                 /\ handler_calls' = 0
    /\ UNCHANGED <<schema, accounts, instruction, evaluated,
                   try_accounts_ret, ctx, instruction_data, call, retry>>

\* The match arm's last expression is the handler call: execute returns
\* what the handler returns.
HandlerReturn ==
    /\ pc = "Executing"
    /\ \E o \in HandlerOutcomes :
         /\ handler_err' = o.raised
         /\ handler_ret' = o.ret
         /\ result' = o.ret
         /\ pc' = IF o.ret.tag = "Ok" THEN "Completed" ELSE "Failed"
    /\ UNCHANGED <<schema, accounts, instruction, cursor, bound, evaluated,
                   wrappers, try_accounts_ret, ctx, handler_calls,
                   instruction_data, call, retry>>

Next ==
    \/ Decode
    \/ ValidateSlot
    \/ AssignSlot
    \/ Invoke
    \/ HandlerReturn

\* Executions over schemas of several slots.
Spec == Init /\ [][Next]_vars

\* Executions of a one-slot schema over every record and constraint list.
SpecSlot == InitSlot /\ [][Next]_vars

\* Executions of the declared Accounts structs over lists of up to one
\* record more than the struct has fields.
SpecPrograms == InitPrograms /\ [][Next]_vars

\* ------------------------------------------------------------------- codec
\* Calls made from the host on one record and on the data-account wrapper
\* of a one-field Accounts struct, outside execute.
CodecSchemas ==
    { << Slot("Account", <<>>) >>, << Slot("Account", <<Attr("mut", 0)>>) >> }

CodecRecords ==
    { AccountInfo(OtherKey, FALSE, w, d, 0, SystemProgramId) :
        w \in BOOLEAN, d \in Buffers }

\* The payload values written: every number of up to MaxDataLen digits 1
\* and 2, and one number of one digit more.
PayloadDigits == {49, 50}
Payloads ==
    { from_slice(d) : d \in (SeqsUpTo(PayloadDigits, MaxDataLen) \ {<<>>})
                          \cup {[i \in 1..(MaxDataLen + 1) |-> 49]} }

Called(op, res, arg) == [op |-> op, res |-> res, arg |-> arg]

hostFrame == <<schema, pc, instruction, cursor, bound, evaluated,
               try_accounts_ret, ctx, handler_calls, result,
               instruction_data, handler_ret, handler_err, retry>>

InitCodec ==
    /\ schema \in CodecSchemas
    /\ accounts \in [1..1 -> CodecRecords]
    /\ pc = "Host"
    /\ instruction = 0
    /\ cursor = 0
    /\ bound = <<>>
    /\ evaluated = 0
    /\ wrappers = <<>>
    /\ try_accounts_ret = Ret(None, <<>>)
    /\ ctx = NoContext
    /\ handler_calls = 0
    /\ result = None
    /\ instruction_data = <<>>
    /\ handler_ret = None
    /\ call = NoCall
    /\ handler_err = 0
    /\ retry = NoRetry

\* try_accounts of the one-field struct: the field's validation, then its
\* constructor.
BindAccount ==
    /\ pc = "Host"
    /\ wrappers = <<>>
    /\ LET cs == parse_constraint_string(schema[1].attrs)
           v  == generate_field_validation(accounts[1], cs)
           a  == generate_field_assignment(schema[1].kind, 1, accounts[1])
       IN  IF v.code # 0
           THEN /\ call' = Called("try_accounts", Err(v.code), 0)
                /\ wrappers' = wrappers
           ELSE IF a.res.tag = "Err"
           THEN /\ call' = Called("try_accounts", a.res, 0)
                /\ wrappers' = wrappers
           ELSE /\ call' = Called("try_accounts", Ok, 0)
                /\ wrappers' = <<a.value>>
    /\ UNCHANGED accounts
    /\ UNCHANGED hostFrame

\* Account { account_info, data }: both fields are public, the wrapper is
\* built around the record with a payload of the caller's choice.
Construct ==
    /\ pc = "Host"
    /\ wrappers = <<>>
    /\ \E v \in Payloads :
         /\ wrappers' = <<Wrapper("Account", 1, v)>>
         /\ call' = Called("construct", Ok, v)
    /\ UNCHANGED accounts
    /\ UNCHANGED hostFrame

\* Mutate that also copies the new payload into the record's buffer.
MutateWritesThrough ==
    /\ pc = "Host"
    /\ wrappers # <<>>
    /\ \E v \in Payloads :
         /\ wrappers' = [wrappers EXCEPT ![1].data = v]
         /\ accounts' = [accounts EXCEPT ![1].data = CopyPrefix(@, to_vec(v))]
         /\ call' = Called("mutate", Ok, v)
    /\ UNCHANGED hostFrame

\* DerefMut: an assignment through the wrapper changes its data field.
Mutate ==
    /\ pc = "Host"
    /\ wrappers # <<>>
    /\ \E v \in Payloads :
         /\ wrappers' = [wrappers EXCEPT ![1].data = v]
         /\ call' = Called("mutate", Ok, v)
    /\ UNCHANGED accounts
    /\ UNCHANGED hostFrame

\* Account::reload
Reload ==
    /\ pc = "Host"
    /\ wrappers # <<>>
    /\ LET r == reload(wrappers[1], accounts[wrappers[1].account_info])
       IN  /\ wrappers' = <<r.value>>
           /\ call' = Called("reload", r.res, 0)
    /\ UNCHANGED accounts
    /\ UNCHANGED hostFrame

\* The wrapper goes out of scope: its shared borrow of the record ends.
Drop ==
    /\ pc = "Host"
    /\ wrappers # <<>>
    /\ wrappers' = <<>>
    /\ call' = Called("drop", Ok, 0)
    /\ UNCHANGED accounts
    /\ UNCHANGED hostFrame

\* AccountInfo::try_serialize takes &mut self: it is callable only while no
\* wrapper borrows the record.
Serialize ==
    /\ pc = "Host"
    /\ wrappers = <<>>
    /\ \E v \in Payloads :
         LET r == try_serialize(accounts[1], v)
         IN  /\ accounts' = [accounts EXCEPT ![1] = r.info]
             /\ call' = Called("try_serialize", r.res, v)
    /\ UNCHANGED wrappers
    /\ UNCHANGED hostFrame

\* AccountInfo::new over the same buffer with another is_writable flag.
Rebuild ==
    /\ pc = "Host"
    /\ wrappers = <<>>
    /\ accounts' = [accounts EXCEPT ![1] =
                       AccountInfo(@.key, @.is_signer, ~@.is_writable,
                                   @.data, @.balance, @.owner)]
    /\ call' = Called("new", Ok, 0)
    /\ UNCHANGED wrappers
    /\ UNCHANGED hostFrame

NextCodec ==
    \/ BindAccount
    \/ Construct
    \/ Mutate
    \/ Reload
    \/ Drop
    \/ Serialize
    \/ Rebuild

SpecCodec == InitCodec /\ [][NextCodec]_vars

\* ------------------------------------------------------------------- retry
\* RetryConfig.  Durations are whole milliseconds; backoff_multiplier is kept
\* in tenths (2.0 is 20), which is exact for the multipliers of the four
\* constructors.
RetryConfig(max_attempts, initial_delay, max_delay, backoff_tenths) ==
    [max_attempts |-> max_attempts, initial_delay |-> initial_delay,
     max_delay |-> max_delay, backoff_tenths |-> backoff_tenths]

\* default, conservative, aggressive, no_retry
default      == RetryConfig(3, 500, 10000, 20)
conservative == RetryConfig(2, 1000, 5000, 15)
aggressive   == RetryConfig(5, 200, 15000, 25)
no_retry     == RetryConfig(1, 0, 0, 10)

\* The configs with_retry is run with: the delays and multiplier of a
\* constructor, max_attempts any u32 up to MaxTries.
RetryConfigs ==
    { [c EXCEPT !.max_attempts = n] :
        c \in {default, conservative, aggressive, no_retry}, n \in 0..MaxTries }

\* QubicRpcError.  A message is the sequence of its words; the variants
\* without a message carry the empty sequence.
QubicRpcError(kind, msg) == [kind |-> kind, msg |-> msg]

\* str::contains for a one-word pattern.
contains(msg, pat) == \E i \in 1..Len(msg) : msg[i] = pat

ServerMessages ==
    { <<"521", "Web", "Server", "Is", "Down">>,
      <<"connection", "refused">>,
      <<"500", "Internal", "Server", "Error">>,
      <<"Connection", "reset">> }

RpcErrors ==
    { QubicRpcError(k, <<>>) :
        k \in {"Http", "Timeout", "Json", "Base64", "InvalidNetwork",
               "InvalidResponse", "Transaction", "SmartContract", "Crypto", "Other"} }
    \cup { QubicRpcError("ServerError", m) : m \in ServerMessages }

should_retry(error) ==
    CASE error.kind = "Http"        -> TRUE
      [] error.kind = "Timeout"     -> TRUE
      [] error.kind = "ServerError" ->
            \/ contains(error.msg, "521")
            \/ contains(error.msg, "502") \/ contains(error.msg, "503")
            \/ contains(error.msg, "connection") \/ contains(error.msg, "timeout")
      [] OTHER                      -> FALSE

\* Result<T, QubicRpcError> of the operation and of with_retry.
RpcOk(v)  == [tag |-> "Ok", value |-> v, err |-> QubicRpcError("", <<>>)]
RpcErr(e) == [tag |-> "Err", value |-> 0, err |-> e]

OperationResults == {RpcOk(42)} \cup {RpcErr(e) : e \in RpcErrors}

\* GivesUp that stops one attempt before max_attempts.
GivesUpEarly(e, attempt, max_attempts) ==
    ~should_retry(e) \/ attempt + 1 >= max_attempts

\* GivesUp that compares with > instead of >=.
GivesUpLate(e, attempt, max_attempts) ==
    ~should_retry(e) \/ attempt > max_attempts

\* The condition under which with_retry returns the error of an attempt.
GivesUp(e, attempt, max_attempts) ==
    ~should_retry(e) \/ attempt >= max_attempts

Min(a, b) == IF a <= b THEN a ELSE b

\* min(Duration::from_millis((delay.as_millis() as f32 * multiplier) as u64),
\*     max_delay)
NextDelay(delay, config) ==
    Min((delay * config.backoff_tenths) \div 10, config.max_delay)

dispatchFrame == <<schema, accounts, instruction, cursor, bound, evaluated,
                   wrappers, try_accounts_ret, ctx, handler_calls, result,
                   instruction_data, handler_ret, call, handler_err>>

InitRetry ==
    /\ schema = <<>>
    /\ accounts = <<>>
    /\ pc = "Retrying"
    /\ instruction = 0
    /\ cursor = 0
    /\ bound = <<>>
    /\ evaluated = 0
    /\ wrappers = <<>>
    /\ try_accounts_ret = Ret(None, <<>>)
    /\ ctx = NoContext
    /\ handler_calls = 0
    /\ result = None
    /\ instruction_data = <<>>
    /\ handler_ret = None
    /\ call = NoCall
    /\ handler_err = 0
    /\ \E c \in RetryConfigs :
         retry = [config |-> c, attempt |-> 1, delay |-> c.initial_delay,
                  outcomes |-> <<>>, slept |-> <<>>, ret |-> None]

\* with_retry, one iteration of the loop: call the operation; return its
\* value, return its error, or sleep and update attempt and delay.
Attempt ==
    /\ pc = "Retrying"
    /\ \E r \in OperationResults :
         LET made == Append(retry.outcomes, r)
         IN  IF r.tag = "Ok"
             THEN /\ retry' = [retry EXCEPT !.outcomes = made, !.ret = r]
                  /\ pc' = "Returned"
             ELSE IF GivesUp(r.err, retry.attempt, retry.config.max_attempts)
             THEN /\ retry' = [retry EXCEPT !.outcomes = made, !.ret = r]
                  /\ pc' = "Returned"
             ELSE /\ retry' = [retry EXCEPT
                                 !.outcomes = made,
                                 !.slept = Append(@, retry.delay),
                                 !.attempt = @ + 1,
                                 !.delay = NextDelay(@, retry.config)]
                  /\ pc' = pc
    /\ UNCHANGED dispatchFrame

NextRetry == Attempt

SpecRetry == InitRetry /\ [][NextRetry]_vars

TypeOK ==
    /\ pc \in {"Decoding", "Binding", "Executing", "Completed", "Failed", "Host",
               "Retrying", "Returned"}
    /\ cursor \in 0..Len(accounts)
    /\ Len(bound) <= Len(schema)
    /\ pc # "Host" => Len(wrappers) <= Len(bound)
    /\ pc = "Host" => Len(wrappers) <= 1 /\ Len(accounts) = 1 /\ Len(schema) = 1
    /\ handler_calls \in 0..1

\* ------------------------------------------------------------- properties
\* The constraint list of slot k and the record pulled for it.
ConstraintsOf(k) == parse_constraint_string(schema[k].attrs)
RecordOf(k)      == accounts[bound[k]]

\* try_accounts has returned.
BindReturned == try_accounts_ret.res.tag # "None"

\* C1: on a successful bind of M slots over N >= M records, slot i is bound
\* to the i-th record, one record per slot, pulled in declaration order from
\* a cursor that only moves forward by one.
C1_SlotOrder ==
    /\ cursor = Len(bound)
    /\ \A i \in 1..Len(bound) : bound[i] = i
    /\ try_accounts_ret.res.tag = "Ok" =>
         /\ Len(accounts) >= Len(schema)
         /\ cursor = Len(schema)
         /\ Len(try_accounts_ret.value) = Len(schema)
         /\ \A i \in 1..Len(schema) :
              /\ try_accounts_ret.value[i].account_info = i
              /\ try_accounts_ret.value[i].kind = schema[i].kind

C1_Witness ==
    /\ try_accounts_ret.res.tag = "Ok"
    /\ Len(schema) = 2
    /\ Len(accounts) = 2
    /\ accounts[1] # accounts[2]
    /\ schema[1] # schema[2]

\* Slot k of the schema does not validate against the k-th record: the
\* record is missing, one of its constraints is violated, or its wrapper
\* cannot be constructed.
SlotFails(k) ==
    \/ k > Len(accounts)
    \/ /\ k <= Len(accounts)
       /\ \/ \E j \in 1..Len(parse_constraint_string(schema[k].attrs)) :
               ConstraintCheck(accounts[k], parse_constraint_string(schema[k].attrs)[j]) # 0
          \/ generate_field_assignment(schema[k].kind, k, accounts[k]).res.tag = "Err"

\* C2: all-or-nothing binding.  When some slot of the schema fails, the
\* handler is never invoked, no Context is built and try_accounts hands no
\* wrapper to its caller; the execution ends with the bind error.
C2_AllOrNothing ==
    (\E k \in 1..Len(schema) : SlotFails(k)) =>
        /\ handler_calls = 0
        /\ ctx = NoContext
        /\ try_accounts_ret.value = <<>>
        /\ try_accounts_ret.res.tag # "Ok"
        /\ pc \in {"Decoding", "Binding", "Failed"}
        /\ pc = "Failed" => wrappers = <<>>
        /\ (pc = "Failed" /\ instruction # 0) =>
              /\ try_accounts_ret.res.tag = "Err"
              /\ result = try_accounts_ret.res

C2_Witness ==
    /\ Len(schema) = 2
    /\ Len(accounts) = 2
    /\ ~SlotFails(1)
    /\ SlotFails(2)
    /\ pc = "Failed"
    /\ try_accounts_ret.res.tag = "Err"

\* C3: no step taken before the handler is invoked changes an account
\* record, so an execution that fails in Decoding or in Binding leaves the
\* data, key, is_signer, is_writable, owner and balance of every record as
\* they were.
C3_FailedLeavesRecords ==
    [][handler_calls' = 0 => accounts' = accounts]_vars

C3_Witness ==
    /\ pc = "Failed"
    /\ handler_calls = 0
    /\ try_accounts_ret.res.tag = "Err"
    /\ Len(bound) >= 2
    /\ \E i \in 1..Len(bound) : accounts[i].data # <<>>

\* The indices of the constraints of slot k its record violates.
Violated(k) ==
    {j \in 1..Len(ConstraintsOf(k)) : ConstraintCheck(RecordOf(k), ConstraintsOf(k)[j]) # 0}

FirstViolated(k) == CHOOSE j \in Violated(k) : \A h \in Violated(k) : j <= h

\* C4: order sensitivity.  When the record of the slot just validated
\* violates several of its constraints, bind returns the error of the first
\* violated constraint in declared order and runs no later check:
\* [Mut, Signer] gives ConstraintMut, [Signer, Mut] gives ConstraintSigner.
C4_OrderSensitivity ==
    Len(bound) >= 1 =>
        LET k == Len(bound) IN
        /\ Violated(k) # {} =>
             /\ try_accounts_ret.res =
                   Err(ConstraintCheck(RecordOf(k), ConstraintsOf(k)[FirstViolated(k)]))
             /\ evaluated = FirstViolated(k)
        /\ (~RecordOf(k).is_writable /\ ~RecordOf(k).is_signer) =>
             /\ schema[k].attrs = <<Attr("mut", 0), Attr("signer", 0)>> =>
                  try_accounts_ret.res = Err(ConstraintMut)
             /\ schema[k].attrs = <<Attr("signer", 0), Attr("mut", 0)>> =>
                  try_accounts_ret.res = Err(ConstraintSigner)

C4_Witness ==
    /\ Len(bound) = 1
    /\ schema[1].attrs = <<Attr("signer", 0), Attr("mut", 0)>>
    /\ ~accounts[1].is_writable
    /\ ~accounts[1].is_signer
    /\ try_accounts_ret.res = Err(ConstraintSigner)
    /\ evaluated = 1

\* C5: with L < M records for M slots bind never succeeds, and it fails with
\* InsufficientAccounts exactly when no constraint of the slots before L
\* fails; the failure happens at the pull for slot L, with L records consumed.
C5_InsufficientAccounts ==
    Len(accounts) < Len(schema) =>
        /\ try_accounts_ret.res.tag # "Ok"
        /\ handler_calls = 0
        /\ BindReturned =>
             /\ try_accounts_ret.res = Err(InsufficientAccounts)
                  <=> \A i \in 1..Len(accounts) :
                        generate_field_validation(
                            accounts[i], parse_constraint_string(schema[i].attrs)).code = 0
             /\ try_accounts_ret.res = Err(InsufficientAccounts) =>
                  /\ cursor = Len(accounts)
                  /\ Len(bound) = Len(accounts)
                  /\ result = Err(InsufficientAccounts)

C5_Witness ==
    /\ Len(schema) = 2
    /\ Len(accounts) = 1
    /\ try_accounts_ret.res = Err(InsufficientAccounts)
    /\ Len(bound) = 1

\* C6: after a successful bind of M slots over N records the handler's
\* remaining_accounts are the N - M records that follow the declared slots,
\* in their order.
C6_RemainingAccounts ==
    ctx.built =>
        ctx.remaining_accounts =
            [j \in 1..(Len(accounts) - Len(schema)) |-> Len(schema) + j]

\* The schema and the account list of the counter-init scenario.
CounterInitScenario ==
    /\ schema = CounterInitSchema
    /\ Len(accounts) = 3
    /\ accounts[1].is_writable
    /\ accounts[1].data = <<>>
    /\ accounts[2].is_signer
    /\ accounts[3].owner = SystemProgramId

\* C7: in the counter-init scenario bind succeeds with three wrappers and no
\* remaining accounts.
C7_CounterInit ==
    CounterInitScenario =>
        /\ try_accounts_ret.res.tag # "Err"
        /\ pc # "Failed" \/ instruction = 0 \/ handler_calls = 1
        /\ ctx.built =>
             /\ Len(ctx.accounts) = 3
             /\ ctx.remaining_accounts = <<>>

\* C8: a slot declared Mut whose record has is_writable = false makes bind
\* fail with ConstraintMut, code 2002, with no wrapper for any slot; bind
\* returns ConstraintMut only for a non-writable record of a slot declaring
\* Mut.
C8_MutViolation ==
    /\ ConstraintMut = 2002
    /\ \A k \in 1..Len(bound) :
         ( /\ ConstraintsOf(k) # <<>>
           /\ ConstraintsOf(k)[1].kind = "mut"
           /\ ~RecordOf(k).is_writable ) =>
             /\ try_accounts_ret = Ret(Err(ConstraintMut), <<>>)
             /\ result = Err(ConstraintMut)
             /\ wrappers = <<>>
             /\ ctx = NoContext
             /\ handler_calls = 0
    /\ try_accounts_ret.res = Err(ConstraintMut) =>
         /\ Len(bound) >= 1
         /\ ~RecordOf(Len(bound)).is_writable
         /\ \E j \in 1..Len(ConstraintsOf(Len(bound))) :
              ConstraintsOf(Len(bound))[j].kind = "mut"

C8_Witness ==
    /\ Len(bound) = 2
    /\ schema[2].attrs = <<Attr("mut", 0)>>
    /\ ~accounts[2].is_writable
    /\ pc = "Failed"
    /\ result = Err(ConstraintMut)

\* The one slot is a program reference whose constraints its record passes,
\* and bind has returned.
ProgramSlotBound ==
    /\ Len(bound) = 1
    /\ schema[1].kind = "Program"
    /\ Violated(1) = {}
    /\ BindReturned

\* A slot whose first constraint is Owner(ref) has pulled a record with
\* another owner: bind returns ConstraintOwner, code 2004, not 1005.
OwnerConstraintCode ==
    /\ ConstraintOwner = 2004
    /\ InvalidProgramId = 1005
    /\ ( /\ Len(bound) = 1
         /\ ConstraintsOf(1) # <<>>
         /\ ConstraintsOf(1)[1].kind = "owner"
         /\ RecordOf(1).owner # ConstraintsOf(1)[1].arg ) =>
           try_accounts_ret.res = Err(ConstraintOwner)

\* C9 as stated: a program-reference slot fails with InvalidProgramId when
\* the record's owner differs from the system program's address, and accepts
\* a record whose owner equals it.
C9_OwnerMismatch_Stated ==
    /\ OwnerConstraintCode
    /\ ProgramSlotBound =>
         /\ RecordOf(1).owner # SystemProgramId => try_accounts_ret.res = Err(InvalidProgramId)
         /\ RecordOf(1).owner = SystemProgramId => try_accounts_ret.res.tag = "Ok"

\* C9 amended: a program-reference slot fails with InvalidProgramId (1005)
\* when the record's key differs from the expected program's address, and
\* accepts a record whose key equals it, whatever the record's owner; a
\* wrong owner under an Owner constraint gives ConstraintOwner (2004).
C9_KeyMismatch ==
    /\ OwnerConstraintCode
    /\ ProgramSlotBound =>
         /\ RecordOf(1).key # SystemProgramId => try_accounts_ret.res = Err(InvalidProgramId)
         /\ RecordOf(1).key = SystemProgramId =>
              /\ try_accounts_ret.res.tag = "Ok"
              /\ try_accounts_ret.value[1] = Wrapper("Program", 1, 0)

C9_Witness ==
    /\ ProgramSlotBound
    /\ RecordOf(1).key = SystemProgramId
    /\ RecordOf(1).owner # SystemProgramId
    /\ try_accounts_ret.res.tag = "Ok"

\* C10: for the slot just validated, a first constraint Space(n) fails with
\* ConstraintSpace when the buffer is shorter than n and passes at length n
\* and above; bind returns ConstraintSpace only for a buffer shorter than the
\* n of a declared Space(n).
C10_SpaceBoundary ==
    Len(bound) >= 1 =>
        LET k  == Len(bound)
            cs == ConstraintsOf(k)
            len == Len(RecordOf(k).data)
        IN  /\ (cs # <<>> /\ cs[1].kind = "space") =>
                 /\ len < cs[1].arg => try_accounts_ret.res = Err(ConstraintSpace)
                 /\ len >= cs[1].arg =>
                      (try_accounts_ret.res = Err(ConstraintSpace) => evaluated >= 2)
            /\ try_accounts_ret.res = Err(ConstraintSpace) <=>
                 \E j \in 1..Len(cs) :
                    /\ cs[j].kind = "space"
                    /\ len < cs[j].arg
                    /\ \A h \in 1..(j - 1) : ConstraintCheck(RecordOf(k), cs[h]) = 0

C10_Witness ==
    /\ Len(bound) = 1
    /\ schema[1].attrs = <<Attr("space", 1)>>
    /\ Len(accounts[1].data) = 1
    /\ try_accounts_ret.res # Err(ConstraintSpace)
    /\ evaluated = 1
    /\ pc # "Failed"

\* The slot just validated starts with an Init constraint: bind returns
\* AccountAlreadyExists exactly when the buffer is not empty; and it returns
\* that error only for a non-empty buffer under a declared Init.
InitOutcome ==
    Len(bound) >= 1 =>
        LET k   == Len(bound)
            cs  == ConstraintsOf(k)
            len == Len(RecordOf(k).data)
        IN  /\ (cs # <<>> /\ cs[1].kind = "init") =>
                 /\ try_accounts_ret.res = Err(AccountAlreadyExists) <=> len > 0
                 /\ len > 0 => evaluated = 1
            /\ try_accounts_ret.res = Err(AccountAlreadyExists) =>
                 /\ len > 0
                 /\ \E j \in 1..Len(cs) : cs[j].kind = "init"

\* C11: Init fails with AccountAlreadyExists exactly when the record's
\* buffer has length > 0, and no step of the bind, whether Init passes or
\* fails, changes a record: nothing is allocated, resized or written.
C11_InitCheck ==
    /\ []InitOutcome
    /\ [][pc = "Binding" => accounts' = accounts]_vars

C11_Witness ==
    /\ Len(bound) = 1
    /\ schema[1].attrs = <<Attr("init", 0)>>
    /\ Len(accounts[1].data) = 1
    /\ try_accounts_ret.res = Err(AccountAlreadyExists)
    /\ evaluated = 1

\* C12: for the slot just validated, a first constraint Signer fails with
\* ConstraintSigner exactly when is_signer is false, a first constraint
\* Owner(ref) fails with ConstraintOwner exactly when the record's owner
\* differs from the address of ref, and bind returns either code only for a
\* record that violates a declared constraint of that kind.
C12_SignerOwner ==
    Len(bound) >= 1 =>
        LET k    == Len(bound)
            cs   == ConstraintsOf(k)
            info == RecordOf(k)
        IN  /\ (cs # <<>> /\ cs[1].kind = "signer") =>
                 (try_accounts_ret.res = Err(ConstraintSigner) <=> ~info.is_signer)
            /\ (cs # <<>> /\ cs[1].kind = "owner") =>
                 (try_accounts_ret.res = Err(ConstraintOwner) <=> info.owner # cs[1].arg)
            /\ try_accounts_ret.res = Err(ConstraintSigner) =>
                 /\ ~info.is_signer
                 /\ \E j \in 1..Len(cs) : cs[j].kind = "signer"
            /\ try_accounts_ret.res = Err(ConstraintOwner) =>
                 \E j \in 1..Len(cs) : cs[j].kind = "owner" /\ info.owner # cs[j].arg

C12_Witness ==
    /\ Len(bound) = 1
    /\ schema[1].attrs = <<Attr("owner", SystemProgramId)>>
    /\ accounts[1].owner # SystemProgramId
    /\ accounts[1].key = SystemProgramId
    /\ try_accounts_ret.res = Err(ConstraintOwner)

\* The payloads that are the wire form of some instruction variant.
Decodable(data) == \E v \in Variants : data = <<v>>

\* C13: once execute has been called with bytes that are not the wire form
\* of any variant (an empty payload, an unknown tag), it has ended in
\* Failed(InvalidInstructionData), no record was pulled from the cursor, no
\* slot was bound or constructed, try_accounts was not called and no handler
\* ran.
C13_UndecodableHalts ==
    (pc # "Decoding" /\ ~Decodable(instruction_data)) =>
        /\ pc = "Failed"
        /\ result = Err(InvalidInstructionData)
        /\ instruction = 0
        /\ cursor = 0
        /\ bound = <<>>
        /\ wrappers = <<>>
        /\ try_accounts_ret = Ret(None, <<>>)
        /\ ctx = NoContext
        /\ handler_calls = 0
        /\ handler_ret = None

C13_Witness ==
    /\ pc = "Failed"
    /\ instruction_data = <<2>>
    /\ Len(schema) >= 1
    /\ Len(accounts) >= 1
    /\ result = Err(InvalidInstructionData)
    /\ cursor = 0

\* C14: the result of execute is the error try_accounts returned when the
\* bind failed, and the handler's return value when the bind succeeded: Ok
\* ends in Completed, an error ends in Failed with the handler's own code,
\* and while the handler has not returned execute has no result.
C14_ErrorsUnchanged ==
    /\ try_accounts_ret.res.tag = "Err" =>
         /\ result = try_accounts_ret.res
         /\ pc = "Failed"
         /\ handler_calls = 0
         /\ handler_ret = None
    /\ try_accounts_ret.res = Ok =>
         /\ result = handler_ret
         /\ handler_ret = None => pc = "Executing"
         /\ handler_ret = Ok => pc = "Completed"
         /\ handler_ret.tag = "Err" => pc = "Failed"
    /\ handler_ret # None => try_accounts_ret.res = Ok

C14_Witness ==
    /\ try_accounts_ret.res = Ok
    /\ handler_ret = Err(ArithmeticOverflow)
    /\ result = Err(ArithmeticOverflow)
    /\ pc = "Failed"

\* The last call made from the host was try_serialize.
Wrote == call.op = "try_serialize"

\* The serialized length of the payload of the last call.
SerializedLen == Len(to_vec(call.arg))

\* C15: a try_serialize on a record whose is_writable is false returns
\* AccountNotMutable, for a slot declared with Mut as for one declared
\* without it, whatever the payload and the buffer.
C15_NotWritable ==
    (Wrote /\ ~accounts[1].is_writable) => call.res = Err(AccountNotMutable)

C15_Witness ==
    /\ Wrote
    /\ schema[1].attrs = <<Attr("mut", 0)>>
    /\ ~accounts[1].is_writable
    /\ SerializedLen <= Len(accounts[1].data)
    /\ call.res = Err(AccountNotMutable)

\* C16 as stated: every try_serialize of a payload whose serialized form is
\* longer than the buffer returns AccountReallocExceeded, and on a writable
\* record a payload that fits is written.
C16_ReallocExceeded_Stated ==
    Wrote =>
        /\ SerializedLen > Len(accounts[1].data) =>
             call.res = Err(AccountReallocExceeded)
        /\ (accounts[1].is_writable /\ SerializedLen <= Len(accounts[1].data)) =>
             call.res = Ok

WritableOutcome ==
    (Wrote /\ accounts[1].is_writable) =>
        /\ SerializedLen > Len(accounts[1].data) =>
             call.res = Err(AccountReallocExceeded)
        /\ SerializedLen <= Len(accounts[1].data) =>
             /\ call.res = Ok
             /\ SubSeq(accounts[1].data, 1, SerializedLen) = to_vec(call.arg)

\* C16: on a writable record, try_serialize returns AccountReallocExceeded
\* when the serialized form is longer than the buffer and writes the form
\* into the head of the buffer when it is not longer; no step changes the
\* length of a buffer.
C16_WritableRealloc ==
    /\ []WritableOutcome
    /\ [][Len(accounts'[1].data) = Len(accounts[1].data)]_vars

C16_Witness ==
    /\ Wrote
    /\ accounts[1].is_writable
    /\ accounts[1].data # <<>>
    /\ SerializedLen = Len(accounts[1].data) + 1
    /\ call.res = Err(AccountReallocExceeded)

\* C17: after a successful try_serialize of v, Account::try_from on the
\* record succeeds and its payload is v.
C17_RoundTrip ==
    (Wrote /\ call.res = Ok) =>
        /\ AccountTryFrom(1, accounts[1]).res = Ok
        /\ AccountTryFrom(1, accounts[1]).value.data = call.arg

\* C18: a mutation of the wrapper's payload leaves every record as it was,
\* and a buffer changes only in a try_serialize that returns Ok.
C18_MutateLeavesBuffer ==
    [][ /\ call'.op = "mutate" => accounts' = accounts
        /\ accounts'[1].data # accounts[1].data =>
             (call'.op = "try_serialize" /\ call'.res = Ok) ]_vars

C18_Witness ==
    /\ call.op = "mutate"
    /\ wrappers # <<>>
    /\ try_deserialize(accounts[1]).res = Ok
    /\ wrappers[1].data # try_deserialize(accounts[1]).value

\* C19: a live wrapper's payload changes only in a mutation or a reload;
\* after a reload that returns Ok the payload is the deserialization of the
\* record's buffer; a reload that fails returns AccountDidNotDeserialize and
\* leaves the wrapper as it was.
C19_ExplicitReload ==
    /\ [](  (call.op = "reload" /\ call.res = Ok) =>
              /\ try_deserialize(accounts[1]).res = Ok
              /\ wrappers[1].data = try_deserialize(accounts[1]).value )
    /\ [][ /\ (wrappers # <<>> /\ wrappers' # <<>>
               /\ wrappers'[1].data # wrappers[1].data) =>
                 call'.op \in {"mutate", "reload"}
           /\ (call'.op = "reload" /\ call'.res.tag = "Err") =>
                 /\ call'.res = Err(AccountDidNotDeserialize)
                 /\ wrappers' = wrappers ]_vars

C19_Witness ==
    /\ call.op = "reload"
    /\ call.res = Err(AccountDidNotDeserialize)
    /\ wrappers # <<>>
    /\ wrappers[1].data \in Payloads

\* The error values execute, try_accounts and the host calls have returned.
Returned == {r \in {result, try_accounts_ret.res, handler_ret, call.res} : r.tag = "Err"}

CodesDistinct ==
    \A e1, e2 \in ErrorCodes : e1.name # e2.name => code(e1) # code(e2)

CodesInRange == \A e \in ErrorCodes : InGroupRange(e.group, code(e))

CodesTested ==
    /\ code(Member("AccountDidNotDeserialize")) = 1000
    /\ code(Member("ConstraintMut")) = 2002
    /\ code(Member("SystemError")) = 6000

MemberCodes == {code(e) : e \in ErrorCodes}

\* C20: the members of ErrorCode have pairwise distinct codes, each code lies
\* in the range documented for the member's group, code() of
\* AccountDidNotDeserialize, ConstraintMut and SystemError is 1000, 2002 and
\* 6000, and every error an execution returns carries the code of a member.
C20_Taxonomy ==
    /\ CodesDistinct
    /\ CodesInRange
    /\ CodesTested
    /\ \A r \in Returned : r.code \in MemberCodes

C20_Witness ==
    /\ pc = "Failed"
    /\ result = Err(code(Member("ConstraintMut")))
    /\ try_accounts_ret.res = result
    /\ InGroupRange("constraint", result.code)

\* Every variant of the downstream enum converts to the member Custom,
\* whose code differs from the variant's declared code.
ConversionCollapses ==
    \A d \in CounterError :
        /\ from(d) = Member("Custom")
        /\ code(from(d)) = Custom
        /\ d.discriminant # code(from(d))

\* C30: whichever downstream error the handler raised, the caller of execute
\* receives ErrorCode::Custom, numeric code 10000: the declared code of the
\* variant (10001, 10002, 10003) does not reach the caller, so distinct
\* downstream errors are returned with one and the same code.
C30_CustomCollapses ==
    /\ ConversionCollapses
    /\ handler_err # 0 =>
         /\ handler_ret = Err(code(Member("Custom")))
         /\ result = Err(Custom)
         /\ result.code # handler_err
         /\ pc = "Failed"

C30_Witness ==
    /\ handler_err = 10002
    /\ result.code = 10000
    /\ pc = "Failed"

\* The attempts with_retry has made: attempt j failed with a retryable error.
FailedRetryable(j) ==
    retry.outcomes[j].tag = "Err" /\ should_retry(retry.outcomes[j].err)

Invocations == Len(retry.outcomes)

\* C21: when the operation failed with retryable errors on attempts 1..k-1
\* and succeeded on attempt k <= max_attempts, it was invoked exactly k times
\* and with_retry returned Ok with the value of attempt k; with_retry does
\* not return a retryable error before max_attempts attempts were made.
C21_FirstSuccess ==
    /\ \A k \in 1..Invocations :
         ( /\ k <= retry.config.max_attempts
           /\ \A j \in 1..(k - 1) : FailedRetryable(j)
           /\ retry.outcomes[k].tag = "Ok" ) =>
              /\ Invocations = k
              /\ pc = "Returned"
              /\ retry.ret = RpcOk(retry.outcomes[k].value)
    /\ (pc = "Returned" /\ retry.ret.tag = "Err" /\ should_retry(retry.ret.err)) =>
         Invocations >= retry.config.max_attempts
    /\ (retry.config.max_attempts = 1 /\ Invocations >= 1
        /\ retry.outcomes[1].tag = "Ok") => Invocations = 1

C21_Witness ==
    /\ pc = "Returned"
    /\ retry.config.max_attempts = 3
    /\ Invocations = 3
    /\ FailedRetryable(1)
    /\ FailedRetryable(2)
    /\ retry.ret = RpcOk(42)

\* The error kinds that are never retried.
NonRetryableKinds ==
    {"InvalidResponse", "Json", "Base64", "InvalidNetwork", "Transaction",
     "SmartContract", "Crypto", "Other"}

RetryableMarkers == {"521", "502", "503", "connection", "timeout"}

NonRetryable(e) ==
    \/ e.kind \in NonRetryableKinds
    \/ e.kind = "ServerError" /\ \A m \in RetryableMarkers : ~contains(e.msg, m)

Max(a, b) == IF a >= b THEN a ELSE b

\* C26: the operation is invoked at least once before with_retry returns and
\* never more than max(1, max_attempts) times; every attempt but the last
\* failed with a retryable error while fewer than max_attempts attempts had
\* been made; with_retry returns the result of the last attempt; and while
\* it has not returned, the last attempt was neither a success, nor a
\* non-retryable error, nor attempt number max_attempts.
C26_BoundedAttempts ==
    /\ pc = "Returned" => Invocations >= 1
    /\ Invocations <= Max(1, retry.config.max_attempts)
    /\ \A j \in 1..(Invocations - 1) :
         /\ retry.outcomes[j].tag = "Err"
         /\ ~NonRetryable(retry.outcomes[j].err)
         /\ j < retry.config.max_attempts
    /\ pc = "Returned" => retry.ret = retry.outcomes[Invocations]
    /\ (pc = "Retrying" /\ Invocations >= 1) =>
         /\ retry.outcomes[Invocations].tag = "Err"
         /\ ~NonRetryable(retry.outcomes[Invocations].err)
         /\ Invocations < retry.config.max_attempts
    /\ pc = "Retrying" => (retry.ret = None /\ retry.attempt = Invocations + 1)

C26_Witness ==
    /\ pc = "Returned"
    /\ retry.config.max_attempts = 2
    /\ Invocations = 2
    /\ FailedRetryable(1)
    /\ retry.ret.tag = "Err"
    /\ retry.ret.err = QubicRpcError("ServerError", <<"connection", "refused">>)

\* The error of slot k when the slot is handled on its own: its pull, then
\* its constraint checks, then its wrapper's constructor; 0 when it has none.
SlotError(k) ==
    IF k > Len(accounts) THEN InsufficientAccounts
    ELSE LET v == generate_field_validation(accounts[k], parse_constraint_string(schema[k].attrs))
             a == generate_field_assignment(schema[k].kind, k, accounts[k])
         IN  IF v.code # 0 THEN v.code
             ELSE IF a.res.tag = "Err" THEN a.res.code
             ELSE 0

FailingSlots == {k \in 1..Len(schema) : SlotError(k) # 0}

LowestFailing == CHOOSE k \in FailingSlots : \A h \in FailingSlots : k <= h

\* C22: slots are handled one after another, the wrapper of slot i is
\* constructed before the record of slot i+1 is pulled, and a failed bind
\* returns the error of the lowest-indexed failing slot.
C22_SlotAtATime ==
    /\ (pc = "Binding" /\ Len(bound) >= 2) => Len(wrappers) >= Len(bound) - 1
    /\ try_accounts_ret.res.tag = "Err" =>
         try_accounts_ret.res = Err(SlotError(LowestFailing))

Terminal == pc \in {"Completed", "Failed"}

\* The transitions of the state machine.
Forward(src, dst) ==
    \/ src = "Decoding"  /\ dst \in {"Binding", "Failed"}
    \/ src = "Binding"   /\ dst \in {"Executing", "Failed"}
    \/ src = "Executing" /\ dst \in {"Completed", "Failed"}

\* The number of steps an execution can still take.
StepsLeft ==
    CASE pc = "Decoding"  -> 2 * Len(schema) + 3
      [] pc = "Binding"   -> (Len(schema) - Len(bound)) + (Len(schema) - Len(wrappers)) + 2
      [] pc = "Executing" -> 1
      [] OTHER            -> 0

\* C23: the state changes only along Decoding -> Binding -> Executing ->
\* Completed, or from one of the three into Failed; nothing happens after a
\* terminal state; every step brings the end nearer and a non-terminal state
\* always has a next step, so each state is entered at most once and the
\* execution ends.  Failed carries one error code, which never changes;
\* try_accounts returns at most once and the handler is called at most once.
C23_SingleAttempt ==
    /\ [][ /\ pc' # pc => Forward(pc, pc')
           /\ ~Terminal
           /\ StepsLeft' < StepsLeft
           /\ handler_calls' \in {handler_calls, 1}
           /\ handler_calls = 1 => handler_calls' = 1
           /\ BindReturned => try_accounts_ret' = try_accounts_ret
           /\ result # None => result' = result ]_vars
    /\ [](~Terminal => (result = None /\ ENABLED Next))
    /\ [](pc = "Completed" => result = Ok)
    /\ [](pc = "Failed" => (result.tag = "Err" /\ result.code > 0))

C23_Witness ==
    /\ pc = "Failed"
    /\ handler_calls = 1
    /\ Len(schema) >= 1
    /\ cursor = Len(schema)
    /\ handler_ret = result

\* C24: the bind pulls at most one record per declared slot, and what it
\* returns is a function of the slot schema and the account snapshot alone:
\* every bind of the same schema over the same records returns the same
\* result, a failed one the same error code.
C24_Deterministic ==
    /\ cursor <= Len(schema)
    /\ Len(bound) <= Len(schema)
    /\ BindReturned => try_accounts_ret = try_accounts(schema, accounts)
    /\ try_accounts_ret.res.tag = "Err" =>
         result = try_accounts(schema, accounts).res

C24_Witness ==
    /\ pc = "Failed"
    /\ Len(schema) = 2
    /\ cursor = 2
    /\ try_accounts_ret.res = Err(AccountDidNotDeserialize)
    /\ try_accounts(schema, accounts).res = Err(AccountDidNotDeserialize)

\* The schema without its Custom constraints.
IsNotCustom(part) == part.name # "constraint"

WithoutCustom(fields) ==
    [k \in 1..Len(fields) |-> [fields[k] EXCEPT !.attrs = SelectSeq(@, IsNotCustom)]]

HasCustom(fields) ==
    \E k \in 1..Len(fields) : \E j \in 1..Len(fields[k].attrs) :
        fields[k].attrs[j].name = "constraint"

\* C25: the bind of a schema with a Custom constraint returns what the bind
\* of the schema without it returns, over the same account list, and no
\* execution returns ConstraintCustom.
C25_CustomInert ==
    /\ (HasCustom(schema) /\ BindReturned) =>
         try_accounts_ret = try_accounts(WithoutCustom(schema), accounts)
    /\ (HasCustom(schema) /\ pc = "Decoding") =>
         try_accounts(schema, accounts) = try_accounts(WithoutCustom(schema), accounts)
    /\ \A r \in Returned : r.code # ConstraintCustom

C25_Witness ==
    /\ schema[1].attrs = <<Attr("constraint", 0), Attr("mut", 0)>>
    /\ Len(accounts) = 1
    /\ accounts[1].owner # SystemProgramId
    /\ ~accounts[1].is_writable
    /\ try_accounts_ret.res = Err(ConstraintMut)

\* The first records of the list, one per declared slot.
DeclaredPrefix == SubSeq(accounts, 1, Len(schema))

\* C29: over a list with more records than declared slots, the bind returns
\* what it returns over the first Len(schema) records alone and over those
\* followed by any other record; the cursor never passes the declared slots,
\* and no execution returns TooManyAccounts.
C29_ExtraIgnored ==
    /\ cursor <= Len(schema)
    /\ (Len(accounts) > Len(schema) /\ BindReturned) =>
         /\ try_accounts_ret = try_accounts(schema, DeclaredPrefix)
         /\ \A x \in DispatchRecords :
              try_accounts_ret = try_accounts(schema, Append(DeclaredPrefix, x))
    /\ \A r \in Returned : r.code # TooManyAccounts

C29_Witness ==
    /\ Len(schema) = 1
    /\ Len(accounts) = 2
    /\ cursor = 1
    /\ pc = "Completed"
    /\ try_accounts_ret.res = Ok

\* A Signer-kind slot without a declared Signer constraint has pulled a
\* record that did not sign.
UnsignedSignerSlot ==
    /\ Len(bound) >= 1
    /\ schema[Len(bound)].kind = "Signer"
    /\ ~RecordOf(Len(bound)).is_signer
    /\ \A j \in 1..Len(ConstraintsOf(Len(bound))) :
         ConstraintsOf(Len(bound))[j].kind # "signer"

SignerDeclared ==
    \E k \in 1..Len(schema) : \E j \in 1..Len(ConstraintsOf(k)) :
        ConstraintsOf(k)[j].kind = "signer"

====
